---- MODULE Spec2Model ----
(***************************************************************************)
(* The reconciliation core of the AdGuard browser extension               *)
(* (Extension/lib/filter/antibanner.js): the start/stop lifecycle, the    *)
(* debounced filter-change batcher (addFiltersChangeEventListener), the   *)
(* read-modify-write of rule text (processSaveFilterRulesToStorageEvents) *)
(* and the engine rebuild (createRequestFilter: load -> compile -> swap). *)
(* JavaScript is single-threaded: every action below is one handler that  *)
(* runs to completion; asynchronous I/O (rulesStorage.read / write,       *)
(* engine.startEngine, setTimeout) completes in a later action.           *)
(***************************************************************************)
EXTENDS Integers, Sequences, FiniteSets, TLC

\* ------------------------------------------------------------------ bounds
MaxEvents == 2        \* events the environment publishes in one behaviour
MaxRebuilds == 3      \* createRequestFilter runs started in one behaviour
MaxTime == 2400       \* the clock of the timed specification stops here (ms)
MaxBurst == 3         \* events recorded in the timed specification
MaxBatch == 3         \* events of the one batch of the save specification
MaxLoads == 2         \* filtersUpdate.loadFilterRules calls in flight at a time
MaxRequests == 2      \* messages and settings events FiltersService handles

\* ------------------------------------------------------- program constants
FILTERS_CHANGE_DEBOUNCE_PERIOD == 1000
USER_FILTER_ID == 0            \* utils.filters.USER_FILTER_ID, a number
NoFilterId == -1               \* a payload object that has no filterId field
NoTimeout == -1                \* onFilterChangeTimeout === null

ADD_RULES == "ADD_RULES"
REMOVE_RULE == "REMOVE_RULE"
UPDATE_FILTER_RULES == "UPDATE_FILTER_RULES"
FILTER_ENABLE_DISABLE == "FILTER_ENABLE_DISABLE"
FILTER_GROUP_ENABLE_DISABLE == "FILTER_GROUP_ENABLE_DISABLE"
UPDATE_USER_FILTER_RULES == "UPDATE_USER_FILTER_RULES"
REQUEST_FILTER_UPDATED == "REQUEST_FILTER_UPDATED"
APPLICATION_INITIALIZED == "APPLICATION_INITIALIZED"

UPDATE_REQUEST_FILTER_EVENTS ==
    {UPDATE_FILTER_RULES, FILTER_ENABLE_DISABLE, FILTER_GROUP_ENABLE_DISABLE,
     UPDATE_USER_FILTER_RULES}

SAVE_FILTER_RULES_TO_STORAGE_EVENTS ==
    {UPDATE_FILTER_RULES, ADD_RULES, REMOVE_RULE}

isUpdateRequestFilterEvent(el) == el.event \in UPDATE_REQUEST_FILTER_EVENTS

\* A test that takes the enabling or disabling of a filter for a storage event.
isSaveRulesToStorageEvent_AlsoToggle(el) ==
    el.event \in SAVE_FILTER_RULES_TO_STORAGE_EVENTS \cup {FILTER_ENABLE_DISABLE}

isSaveRulesToStorageEvent(el) == el.event \in SAVE_FILTER_RULES_TO_STORAGE_EVENTS

\* ------------------------------------------------ the subscription registry
\* subscriptions.getFilters(): one subscribed filter, in one group; the user
\* filter is not in the registry and has no group.
Filters == {1}
Groups == {1}
GroupOf(f) == 1
FilterIds == Filters \cup {USER_FILTER_ID}

\* ---------------------------------------------------------------- rule text
\* Rule lines.  "u" is a rule in a foreign syntax that RuleConverter rewrites
\* to the canonical rule "c"; every other line converts to itself.  "" is the
\* empty line.
Undefined == <<"undefined">>    \* what rulesStorage.read yields for no content
ConvertRule(line) == IF line = "u" THEN "c" ELSE line

\* TSUrlFilter.RuleConverter.convertRules(lines.join('\n')).split('\n'):
\* the conversion goes through text, and ''.split('\n') is [''], so an empty
\* list comes back as one empty line.
ConvertRules(lines) ==
    IF lines = <<>> THEN <<"">>
    ELSE [i \in 1..Len(lines) |-> ConvertRule(lines[i])]

\* utils.collections.removeAll(collection, element): deletes every element
\* strictly equal to `element`.
removeAll(collection, element) ==
    SelectSeq(collection, LAMBDA x : x # element)

\* The loop with a removal that deletes the first match only.
RECURSIVE ApplyEventsFrom_FirstMatch(_, _, _)
ApplyEventsFrom_FirstMatch(loadedRulesText, events, i) ==
    IF i > Len(events) THEN loadedRulesText
    ELSE LET text == IF loadedRulesText = Undefined THEN <<>> ELSE loadedRulesText
             ev == events[i]
             hits == {k \in 1..Len(text) : text[k] = ev.rules[1]}
             first == CHOOSE k \in hits : \A h \in hits : k <= h
             next == CASE ev.event = ADD_RULES -> text \o ev.rules
                       [] ev.event = REMOVE_RULE ->
                            IF hits = {} THEN text
                            ELSE SubSeq(text, 1, first - 1) \o SubSeq(text, first + 1, Len(text))
                       [] ev.event = UPDATE_FILTER_RULES -> ev.rules
                       [] OTHER -> text
         IN ApplyEventsFrom_FirstMatch(next, events, i + 1)

\* One pass of the loop of processSaveFilterRulesToStorageEvents over the
\* events of one filter, from index i on.
RECURSIVE ApplyEventsFrom(_, _, _)
ApplyEventsFrom(loadedRulesText, events, i) ==
    IF i > Len(events) THEN loadedRulesText
    ELSE LET text == IF loadedRulesText = Undefined THEN <<>> ELSE loadedRulesText
             ev == events[i]
             next == CASE ev.event = ADD_RULES -> text \o ev.rules
                       [] ev.event = REMOVE_RULE -> removeAll(text, ev.rules[1])
                       [] ev.event = UPDATE_FILTER_RULES -> ev.rules
                       [] OTHER -> text
         IN ApplyEventsFrom(next, events, i + 1)

\* What the read callback of processSaveFilterRulesToStorageEvents hands to
\* rulesStorage.write.
ConvertedRules(loadedRulesText, events) ==
    ConvertRules(ApplyEventsFrom(loadedRulesText, events, 1))

\* for (const filterId in eventsByFilter): the key is a property name, a
\* string; USER_FILTER_ID is a number.  === compares type and value.
PropertyKey(id) == [type |-> "string", value |-> id]
NumberValue(id) == [type |-> "number", value |-> id]
StrictEquals(x, y) == x.type = y.type /\ x.value = y.value

\* ----------------------------------------------------------- RequestFilter
\* The engine handle: the lists it was compiled from; req is the number of
\* the rebuild request that produced it (0: new RequestFilter()).
NoLists == [f \in FilterIds |-> Undefined]
NewRequestFilter == [lists |-> NoLists, req |-> 0]

RECURSIVE CountRules(_)
CountRules(lines) ==
    IF lines = <<>> THEN 0
    ELSE (IF Head(lines) = "" THEN 0 ELSE 1) + CountRules(Tail(lines))

ListRules(map, f) == IF map[f] = Undefined THEN 0 ELSE CountRules(map[f])

\* requestFilter.getRulesCount(): the rules of the compiled lists; blank
\* lines are no rules.
RECURSIVE SumRules(_, _)
SumRules(map, ids) ==
    IF ids = {} THEN 0
    ELSE LET f == CHOOSE x \in ids : TRUE
         IN ListRules(map, f) + SumRules(map, ids \ {f})

getRulesCount(rf) == SumRules(rf.lists, FilterIds)

\* getRequestFilterInfo(): the payload of REQUEST_FILTER_UPDATED.
getRequestFilterInfo(rf) == [event |-> REQUEST_FILTER_UPDATED, rulesCount |-> getRulesCount(rf)]

\* isEmptyRulesFilterMap: no key at all, or the user filter alone with no line.
isEmptyRulesFilterMap(rulesFilterMap) ==
    LET enabledFilterIds == {f \in FilterIds : rulesFilterMap[f] # Undefined}
    IN \/ enabledFilterIds = {}
       \/ /\ enabledFilterIds = {USER_FILTER_ID}
          /\ rulesFilterMap[USER_FILTER_ID] = <<>>

VARIABLES
    requestFilter,           \* the live engine
    requestFilterInitTime,   \* 0 until the first rebuild reaches compilation
    applicationRunning,
    applicationInitialized,
    reloadedRules,
    initStage,               \* where initialize() is
    listenerCount,           \* addFiltersChangeEventListener() calls so far
    filterEventsHistory,     \* the pending events
    onFilterChangeTimeout,   \* the debounce timer: NoTimeout, or when it is due
    batches,                 \* processed batches with storage I/O in flight
    rebuilds,                \* createRequestFilter runs in flight
    rulesStorage,            \* the Rule Store
    filterEnabled,           \* registry: filter.enabled
    groupEnabled,            \* registry: group.enabled
    filtersStateInfo,        \* persisted enabled state (filtersState)
    filterInstalled,         \* registry: filter.installed
    filterLoaded,            \* registry: filter.loaded
    filterLoads,             \* filtersUpdate.loadFilterRules calls in flight
    handled,                 \* FiltersService: the calls each handled request made
    emitted,                 \* what the last handler published / called
    recorded,                \* events recorded so far
    rebuildsRequested,       \* createRequestFilter runs started so far
    reloads,                 \* reloadAntiBannerFilters() calls so far
    taken,                   \* events processEventsHistory has taken so far
    armedTimers,             \* setTimeout calls neither cleared nor run yet
    storageCalls,            \* rulesStorage.read / write calls of the batches, per filter
    now,                     \* the clock (ms)
    lastRecordAt,            \* when the latest event was recorded
    burstLen,                \* events recorded with gaps shorter than D
    appliedInOrder           \* per filter: the stored text with every recorded
                             \* event applied in the order of recording

vars == <<requestFilter, requestFilterInitTime, applicationRunning,
          applicationInitialized, reloadedRules, initStage, listenerCount,
          filterEventsHistory, onFilterChangeTimeout, batches, rebuilds,
          rulesStorage, filterEnabled, groupEnabled, filtersStateInfo, handled, filterInstalled, filterLoaded, filterLoads, emitted,
          recorded, rebuildsRequested, reloads, taken, storageCalls, armedTimers, now,
          lastRecordAt, burstLen, appliedInOrder>>

\* ------------------------------------------------------------ environment
\* The rule payloads the environment publishes.
AddPayloads == {<<"a">>}
RemovePayloads == {<<"a">>}
UpdatePayloads == {<<>>, <<"b">>}

RuleEvents ==
    {[event |-> ADD_RULES, filter |-> f, rules |-> p] : f \in FilterIds, p \in AddPayloads}
    \cup {[event |-> REMOVE_RULE, filter |-> f, rules |-> p] : f \in FilterIds, p \in RemovePayloads}
    \cup {[event |-> UPDATE_FILTER_RULES, filter |-> f, rules |-> p] : f \in FilterIds, p \in UpdatePayloads}

StateInfos == {"none", "on", "off"}
Hydrated(current, stateInfo) ==
    IF stateInfo = "none" THEN current ELSE (stateInfo = "on")

\* filter.installed = stateInfo.installed; filter.loaded = stateInfo.loaded:
\* a filter that has a persisted state was installed and loaded when it was
\* written.
HydratedFlag(current, stateInfo) ==
    IF stateInfo = "none" THEN current ELSE TRUE

\* The Rule Store at start: filter 1 holds two rules, the user filter nothing.
StoredAtStart == [f \in FilterIds |-> IF f = USER_FILTER_ID THEN Undefined ELSE <<"a", "b">>]

\* No processSaveFilterRulesToStorageEvents call has used the Rule Store yet.
NoStorageCalls == [reads |-> [f \in FilterIds |-> 0], writes |-> [f \in FilterIds |-> 0]]

NoTask == [phase |-> "none", key |-> PropertyKey(NoFilterId), events |-> <<>>, converted |-> Undefined]

\* The state after construction of antiBannerService; the Rule Store and the
\* registry hold what earlier runs left.
Init ==
    /\ requestFilter = NewRequestFilter
    /\ requestFilterInitTime = 0
    /\ applicationRunning = FALSE
    /\ applicationInitialized = FALSE
    /\ reloadedRules = FALSE
    /\ initStage = "none"
    /\ listenerCount = 0
    /\ filterEventsHistory = <<>>
    /\ onFilterChangeTimeout = NoTimeout
    /\ batches = <<>>
    /\ rebuilds = <<>>
    /\ rulesStorage = StoredAtStart
    /\ filterEnabled \in [Filters -> BOOLEAN]
    /\ groupEnabled = [g \in Groups |-> TRUE]
    /\ filtersStateInfo \in [filters : [Filters -> {"none", "on"}], groups : [Groups -> {"none"}]]
    /\ filterInstalled = [f \in Filters |-> FALSE]
    /\ filterLoaded \in [Filters -> BOOLEAN]
    /\ filterLoads = <<>>
    /\ handled = <<>>
    /\ emitted = <<>>
    /\ recorded = 0
    /\ rebuildsRequested = 0
    /\ reloads = 0
    /\ taken = 0
    /\ storageCalls = NoStorageCalls
    /\ armedTimers = 0
    /\ now = 0
    /\ lastRecordAt = 0
    /\ burstLen = 0
    /\ appliedInOrder = StoredAtStart

\* The state after start() has completed on a normal run with filter 1
\* enabled: the first rebuild (request 1) has published its engine and its
\* callback has registered the change listener.
InitRunning ==
    /\ requestFilter = [lists |-> StoredAtStart, req |-> 1]
    /\ requestFilterInitTime = 1
    /\ applicationRunning = TRUE
    /\ applicationInitialized = TRUE
    /\ reloadedRules = FALSE
    /\ initStage = "done"
    /\ listenerCount = 1
    /\ filterEventsHistory = <<>>
    /\ onFilterChangeTimeout = NoTimeout
    /\ batches = <<>>
    /\ rebuilds = <<>>
    /\ rulesStorage = StoredAtStart
    /\ filterEnabled = [f \in Filters |-> TRUE]
    /\ groupEnabled = [g \in Groups |-> TRUE]
    /\ filtersStateInfo = [filters |-> [f \in Filters |-> "on"], groups |-> [g \in Groups |-> "none"]]
    /\ filterInstalled = [f \in Filters |-> TRUE]
    /\ filterLoaded = [f \in Filters |-> TRUE]
    /\ filterLoads = <<>>
    /\ handled = <<>>
    /\ emitted = <<getRequestFilterInfo([lists |-> StoredAtStart, req |-> 1])>>
    /\ recorded = 0
    /\ rebuildsRequested = 1
    /\ reloads = 0
    /\ taken = 0
    /\ storageCalls = NoStorageCalls
    /\ armedTimers = 0
    /\ now = 0
    /\ lastRecordAt = 0
    /\ burstLen = 0
    /\ appliedInOrder = StoredAtStart

\* ---------------------------------------------------------------- batcher
\* A timer that, once armed, keeps its deadline: a fixed-rate throttle.
RearmedTimeout_Throttle ==
    IF onFilterChangeTimeout # NoTimeout THEN onFilterChangeTimeout
    ELSE now + FILTERS_CHANGE_DEBOUNCE_PERIOD

\* clearTimeout + setTimeout(processEventsHistory, D): the timer restarts.
RearmedTimeout == now + FILTERS_CHANGE_DEBOUNCE_PERIOD

\* Re-arming without clearTimeout.
TimersAfterRearm_NoClear == armedTimers + 1

\* if (onFilterChangeTimeout !== null) clearTimeout(...); setTimeout(...): the
\* timers that are scheduled afterwards.
TimersAfterRearm ==
    (IF onFilterChangeTimeout # NoTimeout THEN armedTimers - 1 ELSE armedTimers) + 1

\* processFilterEvent / processGroupEvent, as a change of the batcher's state
\* (history, timer) and of the bookkeeping of recorded events.
Recording(ev) ==
    /\ filterEventsHistory' = Append(filterEventsHistory, ev)
    /\ onFilterChangeTimeout' = RearmedTimeout
    /\ armedTimers' = TimersAfterRearm
    /\ recorded' = recorded + 1
    /\ lastRecordAt' = now
    /\ burstLen' = IF recorded = 0 \/ now - lastRecordAt >= FILTERS_CHANGE_DEBOUNCE_PERIOD
                   THEN 1 ELSE burstLen + 1
    /\ appliedInOrder' =
          IF ev.filter \in FilterIds /\ isSaveRulesToStorageEvent(ev)
          THEN [appliedInOrder EXCEPT ![ev.filter] = ApplyEventsFrom(@, <<ev>>, 1)]
          ELSE appliedInOrder

NotRecording ==
    UNCHANGED <<filterEventsHistory, onFilterChangeTimeout, recorded, lastRecordAt, armedTimers,
                burstLen, appliedInOrder>>

\* listeners.notifyListeners(event, ...) reaching the listeners registered by
\* addFiltersChangeEventListener, if it has run.
Notified(ev) == IF listenerCount > 0 THEN Recording(ev) ELSE NotRecording

\* ------------------------------------------------------ createRequestFilter
\* loadFilterRules: the filters whose rules one rebuild reads.
FiltersToLoad_IgnoresGroups ==
    {f \in Filters : filterEnabled[f]} \cup {USER_FILTER_ID}

FiltersToLoad ==
    {f \in Filters : filterEnabled[f] /\ groupEnabled[GroupOf(f)]} \cup {USER_FILTER_ID}

\* The callbacks createRequestFilter is given: "none" (a batch: the value
\* Promise.all resolves with is no function), "start" (start()'s callback),
\* "init" (initRequestFilter: addFiltersChangeEventListener, then start()'s
\* callback).
\* Where a rebuild comes from: the batch that asked for it (its number and the
\* filters it saved), or no batch (start, initialization).
NoBatch == [batch |-> 0, saved |-> {}]
FromBatch(id, saved) == [batch |-> id, saved |-> saved]

\* What invoking a callback shows: start()'s callback has run.
CallbackRun(callback) == IF callback = "none" THEN <<>> ELSE <<[event |-> "callback"]>>

CallbackListeners(callback) == IF callback = "init" THEN listenerCount + 1 ELSE listenerCount

NewRebuild(callback, origin) ==
    [req |-> rebuildsRequested + 1,
     window |-> IF rebuilds = <<>> THEN rebuildsRequested + 1 ELSE Head(rebuilds).req,
     origin |-> origin,
     callback |-> callback,
     phase |-> "loading",
     filters |-> FiltersToLoad,
     pending |-> FiltersToLoad,
     rulesFilterMap |-> NoLists]

\* A createRequestFilter without the test of applicationRunning.
createRequestFilter_AlwaysRebuilds(running, callback, origin) ==
    /\ rebuildsRequested < MaxRebuilds
    /\ rebuilds' = Append(rebuilds, NewRebuild(callback, origin))
    /\ rebuildsRequested' = rebuildsRequested + 1
    /\ UNCHANGED listenerCount

\* createRequestFilter(callback), called by a handler in which
\* applicationRunning has the value `running`.
createRequestFilter(running, callback, origin) ==
    IF running = FALSE
    THEN /\ listenerCount' = CallbackListeners(callback)
         /\ UNCHANGED <<rebuilds, rebuildsRequested>>
    ELSE /\ rebuildsRequested < MaxRebuilds
         /\ rebuilds' = Append(rebuilds, NewRebuild(callback, origin))
         /\ rebuildsRequested' = rebuildsRequested + 1
         /\ UNCHANGED listenerCount

NoRebuildRequested == UNCHANGED <<rebuilds, rebuildsRequested, listenerCount>>

RemoveAt(seq, i) == [j \in 1..(Len(seq) - 1) |-> IF j < i THEN seq[j] ELSE seq[j + 1]]

\* An initialization announced by every rebuild.
IsFirstInitialization_Always == TRUE

\* if (requestFilterInitTime === 0): no rebuild has reached
\* onFiltersLoadedFromStorage before.
IsFirstInitialization == requestFilterInitTime = 0

\* The callback of rulesStorage.read in loadFilterRulesFromStorage; the last
\* one resolves Promise.all, which runs loadAllFilterRulesDone and
\* onFiltersLoadedFromStorage up to `await engine.startEngine(lists)`.
LoadFilterRulesDone(i, f) ==
    /\ i \in 1..Len(rebuilds)
    /\ rebuilds[i].phase = "loading"
    /\ f \in rebuilds[i].pending
    /\ LET r == rebuilds[i]
           rulesText == rulesStorage[f]
           map == IF rulesText # Undefined
                  THEN [r.rulesFilterMap EXCEPT ![f] = rulesText]
                  ELSE r.rulesFilterMap
           left == r.pending \ {f}
       IN /\ rebuilds' = [rebuilds EXCEPT ![i] =
                 [r EXCEPT !.rulesFilterMap = map, !.pending = left,
                           !.phase = IF left = {} THEN "compiling" ELSE "loading"]]
          /\ IF left = {} /\ IsFirstInitialization
             THEN /\ requestFilterInitTime' = 1
                  /\ emitted' = <<[event |-> APPLICATION_INITIALIZED]>>
             ELSE /\ UNCHANGED requestFilterInitTime
                  /\ emitted' = <<>>
    /\ UNCHANGED <<requestFilter, applicationRunning, applicationInitialized,
                   reloadedRules, initStage, listenerCount, filterEventsHistory,
                   onFilterChangeTimeout, batches, rulesStorage, filterEnabled,
                   groupEnabled, filtersStateInfo, handled, filterInstalled, filterLoaded, filterLoads, recorded, rebuildsRequested,
                   now, reloads, taken, storageCalls, lastRecordAt, armedTimers, burstLen, appliedInOrder>>

\* engine.startEngine(lists): the engine compiled from the lists it is given.
CompiledRequestFilter(r) == [lists |-> r.rulesFilterMap, req |-> r.req]

\* The engine getRequestFilterInfo() reads when requestFilterInitialized
\* announces the update: requestFilter has been assigned two statements
\* before.
LiveAtNotification_BeforeSwap(previous, newRequestFilter) == previous

LiveAtNotification(previous, newRequestFilter) == newRequestFilter

\* A forced update check that does not look at the map.
ReloadsRules_OnEmptyMap(rulesFilterMap, count) == count = 0 /\ ~reloadedRules

\* Whether requestFilterInitialized calls reloadAntiBannerFilters(): not
\* after the early return for an empty map, and only for an engine without
\* rules while reloadedRules is false.
ReloadsRules(rulesFilterMap, count) ==
    /\ ~isEmptyRulesFilterMap(rulesFilterMap)
    /\ count = 0
    /\ ~reloadedRules

\* engine.startEngine resolves: requestFilterInitialized().
RequestFilterInitialized(i) ==
    /\ i \in 1..Len(rebuilds)
    /\ rebuilds[i].phase = "compiling"
    /\ LET r == rebuilds[i]
           newRequestFilter == CompiledRequestFilter(r)
           count == getRulesCount(newRequestFilter)
           reload == ReloadsRules(r.rulesFilterMap, count)
       IN /\ requestFilter' = newRequestFilter
          /\ listenerCount' = CallbackListeners(r.callback)
          /\ emitted' = CallbackRun(r.callback)
                        \o <<getRequestFilterInfo(LiveAtNotification(requestFilter, newRequestFilter))>>
                        \o (IF reload THEN <<[event |-> "reloadAntiBannerFilters"]>> ELSE <<>>)
          /\ reloads' = IF reload THEN reloads + 1 ELSE reloads
          /\ reloadedRules' =
                IF reload THEN TRUE
                ELSE IF isEmptyRulesFilterMap(r.rulesFilterMap) THEN reloadedRules
                ELSE IF count > 0 /\ reloadedRules THEN FALSE
                ELSE reloadedRules
          /\ rebuilds' = RemoveAt(rebuilds, i)
    /\ UNCHANGED <<requestFilterInitTime, applicationRunning, applicationInitialized,
                   initStage, filterEventsHistory, onFilterChangeTimeout, batches,
                   rulesStorage, filterEnabled, groupEnabled, filtersStateInfo, handled, filterInstalled, filterLoaded, filterLoads,
                   recorded, rebuildsRequested, now, taken, storageCalls,
                   lastRecordAt, armedTimers, burstLen, appliedInOrder>>

\* engine.startEngine rejects: the rejection passes through
\* startTSUrlfilterEngine, onFiltersLoadedFromStorage and
\* loadAllFilterRulesDone to the promise of Promise.all(...).then(...), which
\* nothing handles: no catch, no log call, no callback.
StartEngineRejected(i) ==
    /\ i \in 1..Len(rebuilds)
    /\ rebuilds[i].phase = "compiling"
    /\ rebuilds' = RemoveAt(rebuilds, i)
    /\ emitted' = <<>>
    /\ UNCHANGED <<requestFilter, requestFilterInitTime, applicationRunning,
                   applicationInitialized, reloadedRules, initStage, listenerCount,
                   filterEventsHistory, onFilterChangeTimeout, batches,
                   rulesStorage, filterEnabled, groupEnabled, filtersStateInfo, handled, filterInstalled, filterLoaded, filterLoads,
                   recorded, rebuildsRequested, now, reloads, taken, storageCalls, lastRecordAt, armedTimers, burstLen,
          appliedInOrder>>

\* ----------------------------------------------------- processEventsHistory
\* eventsByFilter[filterId]: the events of the batch that carry that filter,
\* in arrival order (group events, which carry no filter, are left out).
EventsByFilter(filterEvents, f) == SelectSeq(filterEvents, LAMBDA e : e.filter = f)

\* events.some(isSaveRulesToStorageEvent)
someSaveRulesToStorageEvent(events) ==
    \E k \in 1..Len(events) : isSaveRulesToStorageEvent(events[k])

\* A test that also takes the storage events for rebuild-triggering.
someUpdateRequestFilterEvent_OrSave(events) ==
    \E k \in 1..Len(events) :
        isUpdateRequestFilterEvent(events[k]) \/ isSaveRulesToStorageEvent(events[k])

\* events.some(isUpdateRequestFilterEvent)
someUpdateRequestFilterEvent(events) ==
    \E k \in 1..Len(events) : isUpdateRequestFilterEvent(events[k])

\* Saving every filter that has an event of any kind.
FiltersToSave_AnyEvent(filterEvents) ==
    {f \in FilterIds : EventsByFilter(filterEvents, f) # <<>>}

\* The filters processSaveFilterRulesToStorageEvents is called for.
FiltersToSave(filterEvents) ==
    {f \in FilterIds : someSaveRulesToStorageEvent(EventsByFilter(filterEvents, f))}

SaveTask(filterEvents, f) ==
    [phase |-> "read", key |-> PropertyKey(f),
     events |-> EventsByFilter(filterEvents, f), converted |-> Undefined]

\* A rebuild started when the timer fires, without waiting for the writes.
RebuildsAtOnce_NoWait(needCreateRequestFilter, dirty) == needCreateRequestFilter

\* Whether processEventsHistory calls createRequestFilter in the handler
\* itself: Promise.all of no deferred is resolved at once.
RebuildsAtOnce(needCreateRequestFilter, dirty) == needCreateRequestFilter /\ dirty = {}

\* A handler that leaves the taken events in the list.
ClearedHistory_Kept == filterEventsHistory

\* filterEventsHistory = [] after the slice has been taken.
ClearedHistory == <<>>

\* The debounce timer fires.
processEventsHistory ==
    /\ onFilterChangeTimeout # NoTimeout
    /\ LET filterEvents == filterEventsHistory
           needCreateRequestFilter == someUpdateRequestFilterEvent(filterEvents)
           dirty == FiltersToSave(filterEvents)
       IN /\ filterEventsHistory' = ClearedHistory
          /\ onFilterChangeTimeout' = NoTimeout
          /\ taken' = taken + Len(filterEvents)
          /\ armedTimers' = armedTimers - 1
          /\ storageCalls' = [storageCalls EXCEPT !.reads =
                                 [f \in FilterIds |-> IF f \in dirty THEN @[f] + 1 ELSE @[f]]]
          /\ batches' =
                IF dirty = {} THEN batches
                ELSE Append(batches,
                        [id |-> recorded, need |-> needCreateRequestFilter,
                         saved |-> dirty,
                         tasks |-> [f \in FilterIds |->
                                      IF f \in dirty THEN SaveTask(filterEvents, f) ELSE NoTask]])
          /\ IF RebuildsAtOnce(needCreateRequestFilter, dirty)
             THEN createRequestFilter(applicationRunning, "none", FromBatch(recorded, {}))
             ELSE NoRebuildRequested
          /\ emitted' = IF needCreateRequestFilter THEN <<>>
                        ELSE <<getRequestFilterInfo(requestFilter)>>
    /\ UNCHANGED <<requestFilter, requestFilterInitTime, applicationRunning,
                   applicationInitialized, reloadedRules, initStage, rulesStorage,
                   filterEnabled, groupEnabled, filtersStateInfo, handled, filterInstalled, filterLoaded, filterLoads, recorded, now,
                   reloads, lastRecordAt, burstLen, appliedInOrder>>

\* ------------------------------------ processSaveFilterRulesToStorageEvents
\* The callback of rulesStorage.read: applies the filter's events to what was
\* read, converts, and calls rulesStorage.write.
SaveRulesRead(b, f) ==
    /\ b \in 1..Len(batches)
    /\ batches[b].tasks[f].phase = "read"
    /\ LET task == batches[b].tasks[f]
       IN batches' = [batches EXCEPT ![b].tasks[f] =
              [task EXCEPT !.phase = "write",
                           !.converted = ConvertedRules(rulesStorage[f], task.events)]]
    /\ storageCalls' = [storageCalls EXCEPT !.writes[f] = @ + 1]
    /\ emitted' = <<>>
    /\ UNCHANGED <<requestFilter, requestFilterInitTime, applicationRunning,
                   applicationInitialized, reloadedRules, initStage, listenerCount,
                   filterEventsHistory, onFilterChangeTimeout, rebuilds,
                   rulesStorage, filterEnabled, groupEnabled, filtersStateInfo, handled, filterInstalled, filterLoaded, filterLoads,
                   recorded, rebuildsRequested, now, reloads, taken,
                   lastRecordAt, armedTimers, burstLen, appliedInOrder>>

\* The event the write callback publishes for the user filter.
UserFilterUpdated == [event |-> UPDATE_USER_FILTER_RULES, filter |-> NoFilterId, rules |-> <<>>]

\* Whether the write callback takes the filter for the user filter:
\* filterId === utils.filters.USER_FILTER_ID.
IsUserFilterKey(key) == StrictEquals(key, NumberValue(USER_FILTER_ID))

\* rulesStorage.write completes and its callback runs: dfd.resolve(), which
\* for the last deferred of the batch lets Promise.all(dfds).then run
\* createRequestFilter, and the notification for the user filter.
SaveRulesWritten(b, f) ==
    /\ b \in 1..Len(batches)
    /\ batches[b].tasks[f].phase = "write"
    /\ LET batch == batches[b]
           task == batch.tasks[f]
           tasks == [batch.tasks EXCEPT ![f] = NoTask]
           allResolved == \A g \in FilterIds : tasks[g].phase = "none"
       IN /\ rulesStorage' = [rulesStorage EXCEPT ![f] = task.converted]
          /\ batches' = IF allResolved THEN RemoveAt(batches, b)
                        ELSE [batches EXCEPT ![b].tasks = tasks]
          /\ IF allResolved /\ batch.need
             THEN createRequestFilter(applicationRunning, "none", FromBatch(batch.id, batch.saved))
             ELSE NoRebuildRequested
          /\ IF IsUserFilterKey(task.key)
             THEN /\ Notified(UserFilterUpdated)
                  /\ emitted' = <<[event |-> UPDATE_USER_FILTER_RULES]>>
             ELSE /\ NotRecording
                  /\ emitted' = <<>>
    /\ UNCHANGED <<requestFilter, requestFilterInitTime, applicationRunning,
                   applicationInitialized, reloadedRules, initStage, filterEnabled,
                   groupEnabled, filtersStateInfo, handled, filterInstalled, filterLoaded, filterLoads, now, reloads, taken, storageCalls>>

\* --------------------------------------------------------------- lifecycle
\* loadFiltersVersionAndStateInfo / loadGroupsStateInfo, then
\* createRequestFilter with the callback that registers the change listener.
initRequestFilter ==
    /\ filterEnabled' = [f \in Filters |-> Hydrated(filterEnabled[f], filtersStateInfo.filters[f])]
    /\ filterInstalled' = [f \in Filters |-> HydratedFlag(filterInstalled[f], filtersStateInfo.filters[f])]
    /\ filterLoaded' = [f \in Filters |-> HydratedFlag(filterLoaded[f], filtersStateInfo.filters[f])]
    /\ groupEnabled' = [g \in Groups |-> Hydrated(groupEnabled[g], filtersStateInfo.groups[g])]
    /\ rebuildsRequested < MaxRebuilds \/ ~applicationRunning
    /\ emitted' = IF applicationRunning = FALSE THEN CallbackRun("init") ELSE <<>>
    /\ IF applicationRunning = FALSE
       THEN /\ listenerCount' = CallbackListeners("init")
            /\ UNCHANGED <<rebuilds, rebuildsRequested>>
       ELSE /\ rebuilds' = Append(rebuilds,
                   LET hydrated == {f \in Filters : filterEnabled'[f] /\ groupEnabled'[GroupOf(f)]}
                                   \cup {USER_FILTER_ID}
                   IN [NewRebuild("init", NoBatch) EXCEPT !.filters = hydrated,
                                                          !.pending = hydrated])
            /\ rebuildsRequested' = rebuildsRequested + 1
            /\ UNCHANGED listenerCount

\* start() that initializes whenever it finds the application stopped.
start_Reinitializes ==
    /\ IF applicationRunning = TRUE
       THEN /\ emitted' = CallbackRun("start")
            /\ UNCHANGED <<applicationRunning, applicationInitialized, initStage,
                           rebuilds, rebuildsRequested, listenerCount>>
       ELSE /\ applicationRunning' = TRUE
            /\ emitted' = <<>>
            /\ initStage' = "runInfo"
            /\ applicationInitialized' = TRUE
            /\ NoRebuildRequested
    /\ UNCHANGED <<requestFilter, requestFilterInitTime, reloadedRules,
                   filterEventsHistory, onFilterChangeTimeout, batches,
                   rulesStorage, filterEnabled, groupEnabled, filtersStateInfo, handled, filterInstalled, filterLoaded, filterLoads,
                   recorded, now, reloads, taken, storageCalls, lastRecordAt, armedTimers,
                   burstLen, appliedInOrder>>

start ==
    /\ IF applicationRunning = TRUE
       THEN /\ emitted' = CallbackRun("start")
            /\ UNCHANGED <<applicationRunning, applicationInitialized, initStage,
                           rebuilds, rebuildsRequested, listenerCount>>
       ELSE /\ applicationRunning' = TRUE
            /\ emitted' = <<>>
            /\ IF ~applicationInitialized
               THEN /\ initStage' = "runInfo"
                    /\ applicationInitialized' = TRUE
                    /\ NoRebuildRequested
               ELSE /\ createRequestFilter(TRUE, "start", NoBatch)
                    /\ UNCHANGED <<applicationInitialized, initStage>>
    /\ UNCHANGED <<requestFilter, requestFilterInitTime, reloadedRules,
                   filterEventsHistory, onFilterChangeTimeout, batches,
                   rulesStorage, filterEnabled, groupEnabled, filtersStateInfo, handled, filterInstalled, filterLoaded, filterLoads,
                   recorded, now, reloads, taken, storageCalls, lastRecordAt, armedTimers, burstLen, appliedInOrder>>

\* stop() that keeps the engine.
stop_KeepsEngine ==
    /\ applicationRunning' = FALSE
    /\ emitted' = <<getRequestFilterInfo(requestFilter)>>
    /\ UNCHANGED <<requestFilter, requestFilterInitTime, applicationInitialized,
                   reloadedRules, initStage, listenerCount, filterEventsHistory,
                   onFilterChangeTimeout, batches, rebuilds, rulesStorage,
                   filterEnabled, groupEnabled, filtersStateInfo, handled, filterInstalled, filterLoaded, filterLoads, recorded,
                   rebuildsRequested, now, reloads, taken, storageCalls, lastRecordAt, armedTimers, burstLen, appliedInOrder>>

stop ==
    /\ applicationRunning' = FALSE
    /\ requestFilter' = NewRequestFilter
    /\ emitted' = <<getRequestFilterInfo(NewRequestFilter)>>
    /\ UNCHANGED <<requestFilterInitTime, applicationInitialized, reloadedRules,
                   initStage, listenerCount, filterEventsHistory,
                   onFilterChangeTimeout, batches, rebuilds, rulesStorage,
                   filterEnabled, groupEnabled, filtersStateInfo, handled, filterInstalled, filterLoaded, filterLoads, recorded,
                   rebuildsRequested, now, reloads, taken, storageCalls, lastRecordAt, armedTimers, burstLen, appliedInOrder>>

\* The run metadata getRunInfo supplies: two flags.
RunInfos == [isFirstRun : BOOLEAN, isUpdate : BOOLEAN]

\* A test order in which an update run is recognised before a first run.
RunBranch_UpdateFirst(runInfo) ==
    IF runInfo.isUpdate THEN "isUpdate"
    ELSE IF runInfo.isFirstRun THEN "isFirstRun"
    ELSE "normal"

\* if (runInfo.isFirstRun) ... else if (runInfo.isUpdate) ... else ...
RunBranch(runInfo) ==
    IF runInfo.isFirstRun THEN "isFirstRun"
    ELSE IF runInfo.isUpdate THEN "isUpdate"
    ELSE "normal"

\* The first-run branch ends with options.onInstall(callback) when the
\* options carry such a function, with callback() otherwise.
InstallCompletion(hasOnInstall) ==
    IF hasOnInstall THEN <<[event |-> "onInstall"]>> ELSE CallbackRun("start")

\* getRunInfo and subscriptions.init have completed.
onSubscriptionLoaded(runInfo) ==
    /\ initStage = "runInfo"
    /\ CASE RunBranch(runInfo) = "isFirstRun" ->
              /\ listenerCount' = listenerCount + 1
              /\ initStage' = "done"
              /\ \E hasOnInstall \in BOOLEAN : emitted' = InstallCompletion(hasOnInstall)
              /\ UNCHANGED <<rebuilds, rebuildsRequested, filterEnabled, groupEnabled,
                             filterInstalled, filterLoaded>>
         [] RunBranch(runInfo) = "isUpdate" ->
              /\ initStage' = "onUpdate"
              /\ emitted' = <<>>
              /\ UNCHANGED <<rebuilds, rebuildsRequested, listenerCount,
                             filterEnabled, groupEnabled, filterInstalled, filterLoaded>>
         [] OTHER ->
              /\ initStage' = "done"
              /\ initRequestFilter
    /\ UNCHANGED <<requestFilter, requestFilterInitTime, applicationRunning,
                   applicationInitialized, reloadedRules, filterEventsHistory,
                   onFilterChangeTimeout, batches, rulesStorage,
                   filtersStateInfo, handled, filterLoads, recorded, now, reloads, taken, storageCalls, lastRecordAt, armedTimers, burstLen, appliedInOrder>>

\* applicationUpdateService.onUpdate calls back initRequestFilter.
onUpdate ==
    /\ initStage = "onUpdate"
    /\ initStage' = "done"
    /\ initRequestFilter
    /\ UNCHANGED <<requestFilter, requestFilterInitTime, applicationRunning,
                   applicationInitialized, reloadedRules, filterEventsHistory,
                   onFilterChangeTimeout, batches, rulesStorage,
                   filtersStateInfo, handled, filterLoads, recorded, now, reloads, taken, storageCalls, lastRecordAt, armedTimers, burstLen, appliedInOrder>>

\* ------------------------------------------------------------- environment
\* ADD_RULES / REMOVE_RULE / UPDATE_FILTER_RULES / UPDATE_USER_FILTER_RULES
\* published to the registered listener: processFilterEvent.
\* A listener that writes the payload to the Rule Store while recording.
processFilterEvent_Eager(ev) ==
    /\ listenerCount > 0
    /\ Recording(ev)
    /\ emitted' = <<>>
    /\ rulesStorage' = IF ev.filter \in FilterIds
                       THEN [rulesStorage EXCEPT ![ev.filter] = ev.rules]
                       ELSE rulesStorage
    /\ UNCHANGED <<requestFilter, requestFilterInitTime, applicationRunning,
                   applicationInitialized, reloadedRules, initStage, listenerCount,
                   batches, rebuilds, filterEnabled, groupEnabled,
                   filtersStateInfo, handled, filterInstalled, filterLoaded, filterLoads, rebuildsRequested, now, reloads, taken,
                   storageCalls>>

processFilterEvent(ev) ==
    /\ listenerCount > 0
    /\ Recording(ev)
    /\ emitted' = <<>>
    /\ UNCHANGED <<requestFilter, requestFilterInitTime, applicationRunning,
                   applicationInitialized, reloadedRules, initStage, listenerCount,
                   batches, rebuilds, rulesStorage, filterEnabled, groupEnabled,
                   filtersStateInfo, handled, filterInstalled, filterLoaded, filterLoads, rebuildsRequested, now, reloads, taken, storageCalls>>

\* A filter is enabled or disabled in the registry, and FILTER_ENABLE_DISABLE
\* is published.
FilterToggled(f) ==
    /\ filterEnabled' = [filterEnabled EXCEPT ![f] = ~filterEnabled[f]]
    /\ Notified([event |-> FILTER_ENABLE_DISABLE, filter |-> f, rules |-> <<>>])
    /\ emitted' = <<>>
    /\ UNCHANGED <<requestFilter, requestFilterInitTime, applicationRunning,
                   applicationInitialized, reloadedRules, initStage, listenerCount,
                   batches, rebuilds, rulesStorage, groupEnabled,
                   filtersStateInfo, handled, filterInstalled, filterLoaded, filterLoads, rebuildsRequested, now, reloads, taken, storageCalls>>

\* A group is enabled or disabled, and FILTER_GROUP_ENABLE_DISABLE is
\* published: processGroupEvent.
GroupToggled(g) ==
    /\ groupEnabled' = [groupEnabled EXCEPT ![g] = ~groupEnabled[g]]
    /\ Notified([event |-> FILTER_GROUP_ENABLE_DISABLE, filter |-> NoFilterId, rules |-> <<>>])
    /\ emitted' = <<>>
    /\ UNCHANGED <<requestFilter, requestFilterInitTime, applicationRunning,
                   applicationInitialized, reloadedRules, initStage, listenerCount,
                   batches, rebuilds, rulesStorage, filterEnabled,
                   filtersStateInfo, handled, filterInstalled, filterLoaded, filterLoads, rebuildsRequested, now, reloads, taken, storageCalls>>

\* The environment publishes at most MaxEvents events in one behaviour.
MayPublish == listenerCount > 0 => recorded < MaxEvents

\* The running application: events, batches, storage I/O and rebuilds.
Next ==
    \/ \E ev \in RuleEvents \cup {UserFilterUpdated} : MayPublish /\ processFilterEvent(ev)
    \/ \E f \in Filters : MayPublish /\ FilterToggled(f)
    \/ \E g \in Groups : MayPublish /\ GroupToggled(g)
    \/ processEventsHistory
    \/ \E b \in 1..Len(batches), f \in FilterIds : SaveRulesRead(b, f)
    \/ \E b \in 1..Len(batches), f \in FilterIds : SaveRulesWritten(b, f)
    \/ \E i \in 1..Len(rebuilds), f \in FilterIds : LoadFilterRulesDone(i, f)
    \/ \E i \in 1..Len(rebuilds) : RequestFilterInitialized(i)
    \/ \E i \in 1..Len(rebuilds) : StartEngineRejected(i)

Spec == InitRunning /\ [][Next]_vars

\* The lifecycle: start, stop, initialization and the rebuilds they start.
NextLifecycle ==
    \/ start
    \/ stop
    \/ \E runInfo \in RunInfos : onSubscriptionLoaded(runInfo)
    \/ onUpdate
    \/ \E i \in 1..Len(rebuilds), f \in FilterIds : LoadFilterRulesDone(i, f)
    \/ \E i \in 1..Len(rebuilds) : RequestFilterInitialized(i)
    \/ \E i \in 1..Len(rebuilds) : StartEngineRejected(i)

SpecLifecycle == Init /\ [][NextLifecycle]_vars

\* ------------------------------------------------- the batcher, with a clock
\* Time passes; timers may fire late, never early.
Gaps == {200}

Advance(d) ==
    /\ now + d <= MaxTime
    /\ now' = now + d
    /\ UNCHANGED <<requestFilter, requestFilterInitTime, applicationRunning,
                   applicationInitialized, reloadedRules, initStage, listenerCount,
                   filterEventsHistory, onFilterChangeTimeout, batches, rebuilds,
                   rulesStorage, filterEnabled, groupEnabled, filtersStateInfo, handled, filterInstalled, filterLoaded, filterLoads,
                   emitted, recorded, rebuildsRequested, reloads, taken,
                   storageCalls, lastRecordAt, armedTimers, burstLen,
                   appliedInOrder>>

\* setTimeout(processEventsHistory, D) runs its callback once D has passed.
TimeoutDue == onFilterChangeTimeout # NoTimeout /\ now >= onFilterChangeTimeout

BurstEvents == {[event |-> ADD_RULES, filter |-> 1, rules |-> <<"a">>]}

NextDebounce ==
    \/ \E ev \in BurstEvents : recorded < MaxBurst /\ processFilterEvent(ev)
    \/ \E d \in Gaps : Advance(d)
    \/ TimeoutDue /\ processEventsHistory

SpecDebounce == InitRunning /\ [][NextDebounce]_vars

\* ------------------------------------------- one batch of one filter's events
\* What filter 1 holds in the Rule Store when the batch is processed.
StoredChoices == {Undefined, <<"">>, <<"a", "b", "a">>, <<"c", "u">>}

BatchEvents ==
    {[event |-> ADD_RULES, filter |-> 1, rules |-> <<"u">>],
     [event |-> ADD_RULES, filter |-> 1, rules |-> <<"a", "b">>],
     [event |-> REMOVE_RULE, filter |-> 1, rules |-> <<"a">>],
     [event |-> REMOVE_RULE, filter |-> 1, rules |-> <<"u">>],
     [event |-> UPDATE_FILTER_RULES, filter |-> 1, rules |-> <<>>],
     [event |-> UPDATE_FILTER_RULES, filter |-> 1, rules |-> <<"a", "u", "a">>],
     [event |-> FILTER_ENABLE_DISABLE, filter |-> 1, rules |-> <<>>],
     [event |-> ADD_RULES, filter |-> USER_FILTER_ID, rules |-> <<"a">>]}

RECURSIVE SeqsUpTo(_, _)
SeqsUpTo(S, n) ==
    IF n = 0 THEN {<<>>}
    ELSE LET shorter == SeqsUpTo(S, n - 1)
         IN shorter \cup {Append(q, x) : q \in shorter, x \in S}

\* The running application with one burst of events for filter 1 recorded and
\* the debounce timer armed.
InitSave ==
    /\ rulesStorage \in {[StoredAtStart EXCEPT ![1] = stored] : stored \in StoredChoices}
    /\ filterEventsHistory \in SeqsUpTo(BatchEvents, MaxBatch) \ {<<>>}
    /\ requestFilter = [lists |-> [f \in FilterIds |-> IF f = 1 THEN rulesStorage[f] ELSE Undefined],
                        req |-> 1]
    /\ requestFilterInitTime = 1
    /\ applicationRunning = TRUE
    /\ applicationInitialized = TRUE
    /\ reloadedRules = FALSE
    /\ initStage = "done"
    /\ listenerCount = 1
    /\ now = 0
    /\ onFilterChangeTimeout = RearmedTimeout
    /\ batches = <<>>
    /\ rebuilds = <<>>
    /\ filterEnabled = [f \in Filters |-> TRUE]
    /\ groupEnabled = [g \in Groups |-> TRUE]
    /\ filtersStateInfo = [filters |-> [f \in Filters |-> "on"], groups |-> [g \in Groups |-> "none"]]
    /\ filterInstalled = [f \in Filters |-> TRUE]
    /\ filterLoaded = [f \in Filters |-> TRUE]
    /\ filterLoads = <<>>
    /\ handled = <<>>
    /\ emitted = <<>>
    /\ recorded = Len(filterEventsHistory)
    /\ rebuildsRequested = 1
    /\ reloads = 0
    /\ taken = 0
    /\ storageCalls = NoStorageCalls
    /\ armedTimers = 1
    /\ lastRecordAt = 0
    /\ burstLen = Len(filterEventsHistory)
    /\ appliedInOrder = rulesStorage

NextSave ==
    \/ processEventsHistory
    \/ \E b \in 1..Len(batches), f \in FilterIds : SaveRulesRead(b, f)
    \/ \E b \in 1..Len(batches), f \in FilterIds : SaveRulesWritten(b, f)
    \/ \E i \in 1..Len(rebuilds), f \in FilterIds : LoadFilterRulesDone(i, f)
    \/ \E i \in 1..Len(rebuilds) : RequestFilterInitialized(i)

SpecSave == InitSave /\ [][NextSave]_vars

\* ------------------------------------- after a rebuild that found no rule
\* Filter 1 stored as text without a rule: one blank line.
StoredBlank == [f \in FilterIds |-> IF f = USER_FILTER_ID THEN Undefined ELSE <<"">>]

\* The state after start() has completed on a normal run in which the Rule
\* Store held no rule for the enabled filter 1: the first rebuild published an
\* engine without rules, called reloadAntiBannerFilters() and set
\* reloadedRules.
InitReloaded ==
    /\ requestFilter = [lists |-> StoredBlank, req |-> 1]
    /\ requestFilterInitTime = 1
    /\ applicationRunning = TRUE
    /\ applicationInitialized = TRUE
    /\ reloadedRules = TRUE
    /\ initStage = "done"
    /\ listenerCount = 1
    /\ filterEventsHistory = <<>>
    /\ onFilterChangeTimeout = NoTimeout
    /\ batches = <<>>
    /\ rebuilds = <<>>
    /\ rulesStorage = StoredBlank
    /\ filterEnabled = [f \in Filters |-> TRUE]
    /\ groupEnabled = [g \in Groups |-> TRUE]
    /\ filtersStateInfo = [filters |-> [f \in Filters |-> "on"], groups |-> [g \in Groups |-> "none"]]
    /\ filterInstalled = [f \in Filters |-> TRUE]
    /\ filterLoaded = [f \in Filters |-> TRUE]
    /\ filterLoads = <<>>
    /\ handled = <<>>
    /\ emitted = <<[event |-> "callback"],
                   getRequestFilterInfo([lists |-> StoredBlank, req |-> 1]),
                   [event |-> "reloadAntiBannerFilters"]>>
    /\ recorded = 0
    /\ rebuildsRequested = 1
    /\ reloads = 1
    /\ taken = 0
    /\ storageCalls = NoStorageCalls
    /\ armedTimers = 0
    /\ now = 0
    /\ lastRecordAt = 0
    /\ burstLen = 0
    /\ appliedInOrder = StoredBlank

SpecReload == InitReloaded /\ [][Next]_vars

\* ------------------------------------------------------ addAntiBannerFilter
\* Identifiers subscriptions.getFilter knows no filter for.
UnknownFilterIds == {2}

\* A lookup that hands back whatever subscriptions.getFilter returns.
getFilterById_Unchecked(filterId) ==
    [thrown |-> FALSE, filter |-> IF filterId \in Filters THEN filterId ELSE NoFilterId]

\* getFilterById: the filter, or `throw new Error(...)` when there is none.
getFilterById(filterId) ==
    IF filterId \in Filters
    THEN [thrown |-> FALSE, filter |-> filterId]
    ELSE [thrown |-> TRUE, filter |-> NoFilterId]

Thrown == [event |-> "Error"]
AddCallback(success) == [event |-> "addAntiBannerFilter callback", success |-> success]
FILTER_ADD_REMOVE == "FILTER_ADD_REMOVE"

\* filter.installed / filter.loaded of what the lookup returned.
IsInstalled(filter) == filter \in Filters /\ filterInstalled[filter]
IsLoaded(filter) == filter \in Filters /\ filterLoaded[filter]

\* onFilterLoaded(success), the completion of addAntiBannerFilter.
onFilterLoaded(filter, success) ==
    /\ filterInstalled' = IF success /\ filter \in Filters
                          THEN [filterInstalled EXCEPT ![filter] = TRUE]
                          ELSE filterInstalled
    /\ emitted' = (IF success THEN <<[event |-> FILTER_ADD_REMOVE, filter |-> filter]>> ELSE <<>>)
                  \o <<AddCallback(success)>>

\* addAntiBannerFilter(filterId, callback)
addAntiBannerFilter(filterId) ==
    /\ LET found == getFilterById(filterId)
           filter == found.filter
       IN IF found.thrown
          THEN /\ emitted' = <<Thrown>>
               /\ UNCHANGED <<filterInstalled, filterLoads>>
          ELSE IF IsInstalled(filter)
          THEN /\ emitted' = <<AddCallback(TRUE)>>
               /\ UNCHANGED <<filterInstalled, filterLoads>>
          ELSE IF IsLoaded(filter)
          THEN /\ onFilterLoaded(filter, TRUE)
               /\ UNCHANGED filterLoads
          ELSE /\ Len(filterLoads) < MaxLoads
               /\ filterLoads' = Append(filterLoads, filter)
               /\ emitted' = <<>>
               /\ UNCHANGED filterInstalled
    /\ UNCHANGED <<requestFilter, requestFilterInitTime, applicationRunning,
                   applicationInitialized, reloadedRules, initStage, listenerCount,
                   filterEventsHistory, onFilterChangeTimeout, batches, rebuilds,
                   rulesStorage, filterEnabled, groupEnabled, filtersStateInfo, handled,
                   filterLoaded, recorded, rebuildsRequested, reloads, taken,
                   storageCalls, armedTimers, now, lastRecordAt, burstLen,
                   appliedInOrder>>

\* filtersUpdate.loadFilterRules(filter, false, onFilterLoaded) calls back.
loadFilterRulesCompleted(k, success) ==
    /\ k \in 1..Len(filterLoads)
    /\ onFilterLoaded(filterLoads[k], success)
    /\ filterLoads' = RemoveAt(filterLoads, k)
    /\ UNCHANGED <<requestFilter, requestFilterInitTime, applicationRunning,
                   applicationInitialized, reloadedRules, initStage, listenerCount,
                   filterEventsHistory, onFilterChangeTimeout, batches, rebuilds,
                   rulesStorage, filterEnabled, groupEnabled, filtersStateInfo, handled,
                   filterLoaded, recorded, rebuildsRequested, reloads, taken,
                   storageCalls, armedTimers, now, lastRecordAt, burstLen,
                   appliedInOrder>>

\* Initialization, which hydrates the registry, with filters added at any
\* time; the rebuilds that start() and the initialization request stay in
\* flight.
NextAddFilter ==
    \/ start
    \/ stop
    \/ \E runInfo \in RunInfos : onSubscriptionLoaded(runInfo)
    \/ onUpdate
    \/ \E filterId \in Filters \cup UnknownFilterIds : addAntiBannerFilter(filterId)
    \/ \E k \in 1..Len(filterLoads), success \in BOOLEAN : loadFilterRulesCompleted(k, success)

SpecAddFilter == Init /\ [][NextAddFilter]_vars

\* --------------------------------------- edits while the application is stopped
\* What is published to the listener in this specification: a new text for
\* filter 1.
StoppedEvents == {[event |-> UPDATE_FILTER_RULES, filter |-> 1, rules |-> <<"b">>]}

\* The state after start() and then stop(), both called before getRunInfo has
\* called back: the initialization is under way and the application is
\* stopped.
InitStopped ==
    /\ requestFilter = NewRequestFilter
    /\ requestFilterInitTime = 0
    /\ applicationRunning = FALSE
    /\ applicationInitialized = TRUE
    /\ reloadedRules = FALSE
    /\ initStage = "runInfo"
    /\ listenerCount = 0
    /\ filterEventsHistory = <<>>
    /\ onFilterChangeTimeout = NoTimeout
    /\ batches = <<>>
    /\ rebuilds = <<>>
    /\ rulesStorage = StoredAtStart
    /\ filterEnabled \in [Filters -> BOOLEAN]
    /\ groupEnabled = [g \in Groups |-> TRUE]
    /\ filtersStateInfo \in [filters : [Filters -> {"none", "on"}], groups : [Groups -> {"none"}]]
    /\ filterInstalled = [f \in Filters |-> FALSE]
    /\ filterLoaded \in [Filters -> BOOLEAN]
    /\ filterLoads = <<>>
    /\ handled = <<>>
    /\ emitted = <<getRequestFilterInfo(NewRequestFilter)>>
    /\ recorded = 0
    /\ rebuildsRequested = 0
    /\ reloads = 0
    /\ taken = 0
    /\ storageCalls = NoStorageCalls
    /\ armedTimers = 0
    /\ now = 0
    /\ lastRecordAt = 0
    /\ burstLen = 0
    /\ appliedInOrder = StoredAtStart

\* The initialization, the batcher and the next start(): events are recorded
\* and batches processed whether the application is running or not.
NextStopped ==
    \/ start
    \/ \E runInfo \in RunInfos : onSubscriptionLoaded(runInfo)
    \/ onUpdate
    \/ \E ev \in StoppedEvents : MayPublish /\ processFilterEvent(ev)
    \/ processEventsHistory
    \/ \E b \in 1..Len(batches), f \in FilterIds : SaveRulesRead(b, f)
    \/ \E b \in 1..Len(batches), f \in FilterIds : SaveRulesWritten(b, f)
    \/ \E i \in 1..Len(rebuilds), f \in FilterIds : LoadFilterRulesDone(i, f)
    \/ \E i \in 1..Len(rebuilds) : RequestFilterInitialized(i)

SpecStopped == InitStopped /\ [][NextStopped]_vars

\* ------------------------------------------- FiltersService (services/filters.ts)
\* Each handled request is recorded with the calls its handler has made, in
\* order, and whether the handler is suspended at an await.
DebounceUpdate == "Engine.debounceUpdate"

\* A handler that does not wait for the operation it has started.
Awaiting_NotAwaited(handler, operation) ==
    [handler |-> handler, trace |-> <<operation, DebounceUpdate>>, stage |-> "awaiting"]

\* `await operation(...)`: the handler has called the operation and is
\* suspended until its promise settles.
Awaiting(handler, operation) ==
    [handler |-> handler, trace |-> <<operation>>, stage |-> "awaiting"]

\* A handler that calls an operation and then Engine.debounceUpdate() without
\* an await in between; an exception of the operation ends the handler.
Synchronous(handler, operation, throws) ==
    [handler |-> handler,
     trace |-> <<operation>> \o (IF throws THEN <<"thrown">> ELSE <<"completed", DebounceUpdate>>),
     stage |-> "settled"]

enableFilter == Awaiting("enableFilter", "FiltersApi.loadAndEnableFilters")

enableGroup == Awaiting("enableGroup", "Categories.enableGroup")

FiltersServiceFrame ==
    UNCHANGED <<requestFilter, requestFilterInitTime, applicationRunning,
                applicationInitialized, reloadedRules, initStage, listenerCount,
                filterEventsHistory, onFilterChangeTimeout, batches, rebuilds,
                rulesStorage, filterEnabled, groupEnabled, filtersStateInfo,
                filterInstalled, filterLoaded, filterLoads, emitted, recorded,
                rebuildsRequested, reloads, taken, storageCalls, armedTimers, now,
                lastRecordAt, burstLen, appliedInOrder>>

\* MessageType.AddAndEnableFilter
onFilterEnable ==
    /\ Len(handled) < MaxRequests
    /\ handled' = Append(handled, enableFilter)
    /\ FiltersServiceFrame

\* MessageType.DisableFilter
onFilterDisable(throws) ==
    /\ Len(handled) < MaxRequests
    /\ handled' = Append(handled,
           Synchronous("onFilterDisable", "FiltersApi.disableFilters", throws))
    /\ FiltersServiceFrame

\* MessageType.EnableFiltersGroup; Categories.getGroupState may know no group.
onGroupEnable(groupFound) ==
    /\ Len(handled) < MaxRequests
    /\ handled' = Append(handled,
           IF groupFound THEN enableGroup
           ELSE [handler |-> "onGroupEnable", trace |-> <<"Log.error">>, stage |-> "settled"])
    /\ FiltersServiceFrame

\* MessageType.DisableFiltersGroup
onGroupDisable(throws) ==
    /\ Len(handled) < MaxRequests
    /\ handled' = Append(handled,
           Synchronous("onGroupDisable", "Categories.disableGroup", throws))
    /\ FiltersServiceFrame

\* SettingOption.UseOptimizedFilters
onOptimizedFiltersSwitch ==
    /\ Len(handled) < MaxRequests
    /\ handled' = Append(handled,
           Awaiting("onOptimizedFiltersSwitch", "FiltersApi.reloadEnabledFilters"))
    /\ FiltersServiceFrame

\* The awaited promise settles: the handler resumes and calls
\* Engine.debounceUpdate(), or ends with the rejection.
AwaitSettled(k, fulfilled) ==
    /\ k \in 1..Len(handled)
    /\ handled[k].stage = "awaiting"
    /\ handled' = [handled EXCEPT ![k] =
           [@ EXCEPT !.stage = "settled",
                     !.trace = @ \o (IF fulfilled THEN <<"completed", DebounceUpdate>>
                                     ELSE <<"rejected">>)]]
    /\ FiltersServiceFrame

NextFiltersService ==
    \/ onFilterEnable
    \/ \E throws \in BOOLEAN : onFilterDisable(throws)
    \/ \E groupFound \in BOOLEAN : onGroupEnable(groupFound)
    \/ \E throws \in BOOLEAN : onGroupDisable(throws)
    \/ onOptimizedFiltersSwitch
    \/ \E k \in 1..Len(handled), fulfilled \in BOOLEAN : AwaitSettled(k, fulfilled)

SpecFiltersService == InitRunning /\ [][NextFiltersService]_vars

\* ------------------------------------------------------------------ claims
InFlight == {rebuilds[i] : i \in 1..Len(rebuilds)}

\* C1: at most one engine rebuild (load -> compile -> swap) is in flight at
\* any time; a rebuild requested while another is in flight starts no second
\* set of rule reads and no second compilation.
C1_SingleFlight == Len(rebuilds) <= 1

\* C2: of the rebuild requests that arrive while a first rebuild is in flight
\* (those whose window is that first rebuild), at most one is ever compiled:
\* never two compilations for one in-flight window.
C2_OneMoreRebuildOwed ==
    \A r \in InFlight, q \in InFlight :
        (/\ r.req # q.req
         /\ r.window = q.window
         /\ r.req # r.window
         /\ q.req # q.window)
        => ~(r.phase = "compiling" /\ q.phase = "compiling")

\* The lists an engine compiled now would hold: the persisted text of every
\* filter with filter.enabled && group.enabled, and of the user filter.
PersistedLists ==
    [f \in FilterIds |-> IF f \in FiltersToLoad THEN rulesStorage[f] ELSE Undefined]

Quiescent ==
    /\ applicationRunning
    /\ filterEventsHistory = <<>>
    /\ onFilterChangeTimeout = NoTimeout
    /\ batches = <<>>
    /\ rebuilds = <<>>

\* C3: at every quiescent point of a running application the live engine was
\* compiled from exactly the currently persisted rule text of the enabled
\* filters of enabled groups, plus the user filter.
C3_EngineMatchesStore == Quiescent => requestFilter.lists = PersistedLists

\* C4: an engine produced by an earlier-requested rebuild never replaces the
\* engine of a later-requested rebuild.
C4_LatestRequestWins == [][requestFilter'.req >= requestFilter.req]_vars

\* The rules of a stored text: its lines, converted, without the blank ones.
StoredRules(lines) ==
    IF lines = Undefined THEN <<>>
    ELSE SelectSeq(ConvertRules(lines), LAMBDA line : line # "")

\* C5: once all storage writes have completed, every filter's persisted rules
\* are the stored rules with every recorded ADD_RULES / REMOVE_RULE /
\* UPDATE_FILTER_RULES event for it applied in the order of recording.
C5_NoLostUpdate ==
    (batches = <<>> /\ filterEventsHistory = <<>>)
    => \A f \in FilterIds : StoredRules(rulesStorage[f]) = StoredRules(appliedInOrder[f])

\* The stored content with the events applied one after the other in arrival
\* order: add appends the payload, remove deletes every line equal to the
\* removed rule, replace overwrites with the payload.
RECURSIVE SequentialResult(_, _)
SequentialResult(stored, events) ==
    IF events = <<>> THEN (IF stored = Undefined THEN <<>> ELSE stored)
    ELSE LET before == SequentialResult(stored, SubSeq(events, 1, Len(events) - 1))
             last == events[Len(events)]
         IN IF last.event = ADD_RULES THEN before \o last.rules
            ELSE IF last.event = REMOVE_RULE
                 THEN [k \in 1..Cardinality({j \in 1..Len(before) : before[j] # last.rules[1]}) |->
                         LET kept == {j \in 1..Len(before) : before[j] # last.rules[1]}
                             at == CHOOSE j \in kept : Cardinality({h \in kept : h <= j}) = k
                         IN before[at]]
            ELSE IF last.event = UPDATE_FILTER_RULES THEN last.rules
            ELSE before

\* C6: within one batch, what is written to the Rule Store for a filter is
\* the stored content with the filter's events applied sequentially in
\* arrival order, converted once, as a whole, after the last event.
C6_BatchAppliedInOrder ==
    [][\A b \in 1..Len(batches), f \in FilterIds :
          SaveRulesWritten(b, f)
          => rulesStorage'[f] =
                ConvertRules(SequentialResult(rulesStorage[f], batches[b].tasks[f].events))]_vars

\* C6 witness: a batch of two events, one of them the removal of a rule stored
\* twice and one the addition of a rule that conversion rewrites, is written.
C6_Witness ==
    /\ appliedInOrder[1] = <<"a", "b", "a">>
    /\ recorded = 2
    /\ batches = <<>>
    /\ rulesStorage[1] = <<"b", "c">>

\* C7: the timer callback runs only when D has elapsed since the most recent
\* recorded event, and the batch it takes holds the whole burst of events
\* whose gaps were shorter than D.
C7_TrailingDebounce ==
    [][processEventsHistory
       => /\ now >= lastRecordAt + FILTERS_CHANGE_DEBOUNCE_PERIOD
          /\ Len(filterEventsHistory) >= burstLen
          /\ filterEventsHistory' = <<>>]_vars

\* C7 witness: a burst of three events, the last at 400 ms, is taken as one
\* batch at 1400 ms.
C7_Witness ==
    /\ Len(batches) = 1
    /\ Len(batches[1].tasks[1].events) = 3
    /\ burstLen = 3
    /\ lastRecordAt = 400
    /\ now = 1400
    /\ filterEventsHistory = <<>>
    /\ onFilterChangeTimeout = NoTimeout

\* C8: the rebuild a batch causes is in flight (reads rules) only after every
\* Rule Store write of that batch has been acknowledged: no batch with a
\* write still owed has a rebuild in flight.
C8_RebuildAfterWrites ==
    \A r \in InFlight : \A b \in 1..Len(batches) : batches[b].id # r.origin.batch

\* C8 witness: the rebuild of a batch that saved rules has read them.
C8_Witness ==
    \E r \in InFlight : r.origin.saved # {} /\ r.phase = "compiling"

\* A failure is surfaced when the handler logs an error or runs the callback.
FailureSurfaced(out) ==
    \E k \in 1..Len(out) : out[k].event \in {"log.error", "callback"}

\* C9: a failed rebuild leaves the previous live engine in place, starts no
\* retry, and the failure is surfaced to the caller or the log.
C9_FailedRebuild ==
    [][(\E i \in 1..Len(rebuilds) : StartEngineRejected(i))
       => /\ requestFilter' = requestFilter
          /\ rebuildsRequested' = rebuildsRequested
          /\ FailureSurfaced(emitted')]_vars

\* C10: stop(), in any state, sets the application to not running, makes a
\* fresh empty engine live and publishes REQUEST_FILTER_UPDATED with
\* rulesCount = 0.
C10_StopEmptiesEngine ==
    [][stop => /\ applicationRunning' = FALSE
               /\ getRulesCount(requestFilter') = 0
               /\ requestFilter'.lists = NoLists
               /\ emitted' = <<[event |-> REQUEST_FILTER_UPDATED, rulesCount |-> 0]>>]_vars

\* C10 witness: stop() has replaced an engine that a rebuild had published.
C10_Witness ==
    /\ applicationRunning = FALSE
    /\ requestFilterInitTime = 1
    /\ requestFilter = NewRequestFilter
    /\ rebuilds = <<>>
    /\ emitted = <<[event |-> REQUEST_FILTER_UPDATED, rulesCount |-> 0]>>

\* How often a handler's output shows start()'s completion callback invoked.
CallbacksIn(out) == Cardinality({k \in 1..Len(out) : out[k].event = "callback"})

\* C11: every start() call invokes its completion callback exactly once - a
\* rebuild that carries the callback runs it once when it ends - and a
\* start() call made while the application is running invokes its callback
\* at once and starts no initialization, no rebuild and registers no listener.
C11_StartCallbackOnce ==
    [][/\ (start /\ applicationRunning)
          => /\ CallbacksIn(emitted') = 1
             /\ UNCHANGED <<initStage, applicationInitialized, rebuilds,
                            rebuildsRequested, listenerCount, requestFilter>>
       /\ \A i \in 1..Len(rebuilds) :
             (rebuilds' = RemoveAt(rebuilds, i) /\ rebuilds[i].callback # "none")
             => CallbacksIn(emitted') = 1]_vars

\* C12: over any sequence of start() and stop() calls initialize() is entered
\* at most once (only while applicationInitialized is false, which it never
\* is again), the change listener is registered at most once, and a start()
\* that finds the application stopped and initialized goes directly to a
\* rebuild, leaving the initialization and the registry as they are.
C12_InitializeOnce ==
    [][/\ (initStage' = "runInfo" /\ initStage # "runInfo")
          => (initStage = "none" /\ ~applicationInitialized)
       /\ applicationInitialized => applicationInitialized'
       /\ listenerCount' <= 1
       /\ (start /\ ~applicationRunning /\ applicationInitialized)
          => /\ Len(rebuilds') = Len(rebuilds) + 1
             /\ rebuilds'[Len(rebuilds')].callback = "start"
             /\ UNCHANGED <<initStage, listenerCount, filterEnabled, groupEnabled>>]_vars

\* C12 witness: after the initialization has finished and registered the
\* listener, the application was stopped and started again, and that
\* start()'s rebuild is in flight.
C12_Witness ==
    /\ initStage = "done"
    /\ listenerCount = 1
    /\ applicationRunning
    /\ \E i \in 1..Len(rebuilds) : rebuilds[i].callback = "start"

\* C13: the forced remote update check (reloadAntiBannerFilters called by a
\* rebuild that produced no rule) is triggered at most once per process run,
\* and every rebuild whose aggregated rule set is empty publishes an engine
\* with ruleCount = 0.
C13_ForcedCheckOnce ==
    [][/\ reloads' <= 1
       /\ \A i \in 1..Len(rebuilds) :
             (RequestFilterInitialized(i) /\ SumRules(rebuilds[i].rulesFilterMap, FilterIds) = 0)
             => getRulesCount(requestFilter') = 0]_vars

\* The filters whose text a rules map or an engine holds.
ListedFilters(lists) == {f \in FilterIds : lists[f] # Undefined}

\* C14: every rebuild reads exactly the filters with filter.enabled &&
\* group.enabled at its start, plus the user filter; it compiles only when all
\* those reads have completed; and the engine it publishes holds text of
\* those filters only.
C14_GroupGating ==
    [][/\ \A i \in 1..Len(rebuilds') :
             /\ rebuilds'[i].pending \subseteq rebuilds'[i].filters
             /\ ListedFilters(rebuilds'[i].rulesFilterMap)
                   \subseteq (rebuilds'[i].filters \ rebuilds'[i].pending)
             /\ rebuilds'[i].phase = "compiling" => rebuilds'[i].pending = {}
       /\ Len(rebuilds') = Len(rebuilds) + 1
          => rebuilds'[Len(rebuilds')].filters =
                {f \in Filters : filterEnabled'[f] /\ groupEnabled'[1]} \cup {USER_FILTER_ID}
       /\ \A i \in 1..Len(rebuilds) :
             RequestFilterInitialized(i)
             => /\ rebuilds[i].pending = {}
                /\ ListedFilters(requestFilter'.lists) \subseteq rebuilds[i].filters
                /\ \A f \in rebuilds[i].filters :
                      requestFilter'.lists[f] = rebuilds[i].rulesFilterMap[f]]_vars

\* C14 witness: with the group of filter 1 disabled and filter 1 itself
\* enabled, a rebuild has replaced the engine of 2 rules by one without rules.
C14_Witness ==
    /\ filterEnabled[1]
    /\ ~groupEnabled[1]
    /\ requestFilter.req > 1
    /\ getRulesCount(requestFilter) = 0
    /\ rulesStorage[1] = <<"a", "b">>
    /\ rebuilds = <<>>

\* A pending list of ADD_RULES and REMOVE_RULE events only.
OnlyAddRemove(events) ==
    /\ events # <<>>
    /\ \A k \in 1..Len(events) : events[k].event \in {"ADD_RULES", "REMOVE_RULE"}

\* C15: a batch of ADD_RULES / REMOVE_RULE events only is persisted to the
\* Rule Store, starts no rebuild and does not replace the live engine, neither
\* when the timer fires nor when its writes are acknowledged.
C15_StorageOnlyBatch ==
    [][/\ (processEventsHistory /\ OnlyAddRemove(filterEventsHistory))
          => /\ rebuilds' = rebuilds
             /\ requestFilter' = requestFilter
             /\ Len(batches') = Len(batches) + 1
             /\ ~batches'[Len(batches')].need
       /\ \A b \in 1..Len(batches), f \in FilterIds :
             (SaveRulesWritten(b, f) /\ ~batches[b].need)
             => /\ rebuilds' = rebuilds
                /\ requestFilter' = requestFilter
                /\ rulesStorage'[f] = batches[b].tasks[f].converted]_vars

\* C15 witness: a batch of one ADD_RULES event for filter 1 has been written,
\* and the engine is still the one of the first rebuild.
C15_Witness ==
    /\ recorded = 1
    /\ rulesStorage[1] = <<"a", "b", "a">>
    /\ batches = <<>>
    /\ rebuilds = <<>>
    /\ rebuildsRequested = 1
    /\ requestFilter = [lists |-> StoredAtStart, req |-> 1]

\* The batch of batches that carries the number id, if it is still there.
BatchesWithId(bs, id) == {k \in 1..Len(bs) : bs[k].id = id}

\* C16: every recorded event is handed to exactly one processed batch: the
\* events taken so far and the pending ones are all the recorded ones, the
\* timer's handler takes the whole list and clears it in one step, and an
\* event recorded while a batch is in progress is appended to the pending
\* list and leaves the batches in progress as they are.
C16_EachEventInOneBatch ==
    [][/\ taken' + Len(filterEventsHistory') = recorded'
       /\ processEventsHistory
          => /\ filterEventsHistory' = <<>>
             /\ taken' = taken + Len(filterEventsHistory)
       /\ recorded' = recorded + 1
          => /\ Len(filterEventsHistory') = Len(filterEventsHistory) + 1
             /\ SubSeq(filterEventsHistory', 1, Len(filterEventsHistory)) = filterEventsHistory
             /\ batches' = batches
             /\ taken' = taken
       /\ \A b \in 1..Len(batches) : \A k \in BatchesWithId(batches', batches[b].id) :
             \A f \in FilterIds :
                \/ batches'[k].tasks[f].events = batches[b].tasks[f].events
                \/ batches'[k].tasks[f] = NoTask]_vars

\* C16 witness: while the batch of the first event has its storage I/O in
\* progress, a second event is recorded and waits in the pending list.
C16_Witness ==
    /\ recorded = 2
    /\ taken = 1
    /\ Len(filterEventsHistory) = 1
    /\ Len(batches) = 1

\* C17: the step that records an event only appends it to the pending list
\* and (re)arms the debounce timer: the Rule Store, the live engine, the
\* batches and rebuilds in flight are unchanged by it, and processFilterEvent
\* leaves the registry's enabled flags as they are.
C17_RecordingDoesNoWork ==
    [][/\ recorded' = recorded + 1
          => /\ Len(filterEventsHistory') = Len(filterEventsHistory) + 1
             /\ SubSeq(filterEventsHistory', 1, Len(filterEventsHistory)) = filterEventsHistory
             /\ onFilterChangeTimeout' = now + 1000
             /\ UNCHANGED <<rulesStorage, requestFilter, rebuilds, rebuildsRequested,
                            batches, storageCalls, reloads, applicationRunning>>
       /\ (\E ev \in RuleEvents \cup {UserFilterUpdated} : processFilterEvent(ev))
          => UNCHANGED <<filterEnabled, groupEnabled>>]_vars

\* C17 witness: an ADD_RULES event has just been recorded while a rebuild is
\* in flight.
C17_Witness ==
    /\ recorded = 2
    /\ Len(filterEventsHistory) = 1
    /\ filterEventsHistory[1].event = "ADD_RULES"
    /\ onFilterChangeTimeout # NoTimeout
    /\ rebuilds # <<>>

HasSaveEvent(events, f) ==
    \E k \in 1..Len(events) :
        /\ events[k].filter = f
        /\ events[k].event \in {"ADD_RULES", "REMOVE_RULE", "UPDATE_FILTER_RULES"}

\* The batches in which the read for the filter has not called back yet.
ReadsInFlight(bs, f) == Cardinality({k \in 1..Len(bs) : bs[k].tasks[f].phase = "read"})

\* C19: processing one batch issues exactly one Rule Store read and exactly
\* one write for each filter with at least one storage-mutating event in the
\* batch, however many events target it, and none for any other filter: the
\* reads are issued when the timer fires, each read is answered by one write,
\* and no other step reads or writes for a batch.
C19_OneReadOneWritePerFilter ==
    [][/\ processEventsHistory
          => /\ \A f \in FilterIds :
                   storageCalls'.reads[f] =
                      storageCalls.reads[f] + (IF HasSaveEvent(filterEventsHistory, f) THEN 1 ELSE 0)
             /\ storageCalls'.writes = storageCalls.writes
       /\ ~processEventsHistory => storageCalls'.reads = storageCalls.reads
       /\ \A f \in FilterIds :
             /\ storageCalls'.reads[f] - storageCalls'.writes[f] = ReadsInFlight(batches', f)
             /\ storageCalls'.writes[f] # storageCalls.writes[f]
                => /\ storageCalls'.writes[f] = storageCalls.writes[f] + 1
                   /\ ReadsInFlight(batches', f) = ReadsInFlight(batches, f) - 1]_vars

\* C19 witness: a batch of three events, for filter 1 and for the user
\* filter, has been written with one read and one write for each of them.
C19_Witness ==
    /\ recorded = 3
    /\ batches = <<>>
    /\ storageCalls.reads = [f \in FilterIds |-> 1]
    /\ storageCalls.writes = [f \in FilterIds |-> 1]

\* The REQUEST_FILTER_UPDATED notifications in a handler's output.
UpdatesIn(out) == {k \in 1..Len(out) : out[k].event = "REQUEST_FILTER_UPDATED"}

\* C20: a successful rebuild makes its engine live and announces it in the
\* same handler, the swap first: exactly one REQUEST_FILTER_UPDATED is
\* published, and its rulesCount is the rule count of the engine that rebuild
\* has just made live.
C20_SwapThenAnnounce ==
    [][\A i \in 1..Len(rebuilds) :
          RequestFilterInitialized(i)
          => /\ requestFilter'.req = rebuilds[i].req
             /\ requestFilter'.lists = rebuilds[i].rulesFilterMap
             /\ Cardinality(UpdatesIn(emitted')) = 1
             /\ \A k \in UpdatesIn(emitted') :
                   emitted'[k].rulesCount = getRulesCount(requestFilter')]_vars

\* C20 witness: the rebuild after the group of filter 1 was disabled has
\* replaced the engine of 2 rules and announced rulesCount = 0.
C20_Witness ==
    /\ requestFilter.req = 2
    /\ rebuildsRequested = 2
    /\ rebuilds = <<>>
    /\ ~groupEnabled[1]
    /\ emitted = <<[event |-> "REQUEST_FILTER_UPDATED", rulesCount |-> 0]>>

\* C21 as claimed: a rebuild whose aggregated map is empty (or holds the
\* empty user filter alone) publishes an engine without rules and, when the
\* forced update check has not been triggered yet, triggers it.
C21_EmptyMapForcesCheck ==
    [][\A i \in 1..Len(rebuilds) :
          (RequestFilterInitialized(i) /\ isEmptyRulesFilterMap(rebuilds[i].rulesFilterMap))
          => /\ getRulesCount(requestFilter') = 0
             /\ (~reloadedRules /\ reloads = 0) => reloads' = reloads + 1]_vars

\* C21, amended: a rebuild whose aggregated map is empty (or holds the empty
\* user filter alone) still goes through engine.startEngine, publishes an
\* engine without rules and neither triggers the forced update check nor
\* changes reloadedRules; the check is triggered by the rebuild whose map has
\* a list and whose engine has no rule, while reloadedRules is false.
C21_EmptyMapNoCheck ==
    [][\A i \in 1..Len(rebuilds) :
          RequestFilterInitialized(i)
          => LET map == rebuilds[i].rulesFilterMap
             IN /\ rebuilds[i].phase = "compiling"
                /\ isEmptyRulesFilterMap(map)
                   => /\ getRulesCount(requestFilter') = 0
                      /\ reloads' = reloads
                      /\ reloadedRules' = reloadedRules
                /\ (~isEmptyRulesFilterMap(map) /\ getRulesCount(requestFilter') = 0 /\ ~reloadedRules)
                   => /\ reloads' = reloads + 1
                      /\ reloadedRules']_vars

\* C21 witness: filter 1 was disabled, the rebuild read the user filter only,
\* found nothing stored and published an engine without lists; no forced
\* update check was made.
C21_Witness ==
    /\ requestFilter.req = 2
    /\ requestFilter.lists = NoLists
    /\ rebuilds = <<>>
    /\ ~filterEnabled[1]
    /\ reloads = 0
    /\ ~reloadedRules
    /\ emitted = <<[event |-> "REQUEST_FILTER_UPDATED", rulesCount |-> 0]>>

\* The filters a rebuild reads when the registry has first been hydrated from
\* the persisted state: enabled filters of enabled groups, and the user
\* filter.
SelectedFromPersisted ==
    {f \in Filters : /\ Hydrated(filterEnabled[f], filtersStateInfo.filters[f])
                     /\ Hydrated(groupEnabled[GroupOf(f)], filtersStateInfo.groups[GroupOf(f)])}
    \cup {USER_FILTER_ID}

\* C22: every rebuild hydrates the registry from the persisted filter and
\* group state before it selects the filters to read: the filters a newly
\* started rebuild reads are those the persisted state enables at that
\* moment, for the rebuild of a restart after stop() as for the first one.
C22_RebuildHydratesFirst ==
    [][rebuildsRequested' = rebuildsRequested + 1
       => rebuilds'[Len(rebuilds')].filters = SelectedFromPersisted]_vars

\* The core starts the initial rebuild: one more rebuild in flight, carrying
\* the callback that registers the change listener, and no listener yet.
InitialRebuildStarted ==
    /\ rebuildsRequested' = rebuildsRequested + 1
    /\ Len(rebuilds') = Len(rebuilds) + 1
    /\ rebuilds'[Len(rebuilds')].callback = "init"
    /\ listenerCount' = listenerCount

\* The first-run branch: the listener is registered, no rebuild is started,
\* the callback goes to the install hook or is called.
FirstRunBranchTaken ==
    /\ listenerCount' = listenerCount + 1
    /\ UNCHANGED <<rebuilds, rebuildsRequested, filterEnabled, groupEnabled>>
    /\ emitted' \in {InstallCompletion(TRUE), InstallCompletion(FALSE)}

\* The initial rebuild completes and its callback registers the listener.
InitialRebuildCompleted ==
    \E i \in 1..Len(rebuilds) : rebuilds[i].callback = "init" /\ RequestFilterInitialized(i)

\* C23 as claimed: the run kind is decided once, at onSubscriptionLoaded; a
\* first run registers the listener and starts no rebuild; an update run and
\* a normal run start the initial rebuild (an update run when the update
\* service continues), and the listener is registered only when that rebuild
\* has completed.
C23_RunKindBranches ==
    [][/\ \A runInfo \in RunInfos :
             onSubscriptionLoaded(runInfo)
             => /\ initStage = "runInfo" /\ initStage' # "runInfo"
                /\ runInfo.isFirstRun => FirstRunBranchTaken
                /\ (~runInfo.isFirstRun /\ runInfo.isUpdate)
                   => UNCHANGED <<rebuilds, rebuildsRequested, listenerCount>>
                /\ (~runInfo.isFirstRun /\ ~runInfo.isUpdate) => InitialRebuildStarted
       /\ onUpdate => InitialRebuildStarted
       /\ listenerCount' > listenerCount
          => \/ \E runInfo \in RunInfos : runInfo.isFirstRun /\ onSubscriptionLoaded(runInfo)
             \/ InitialRebuildCompleted]_vars

\* C23, amended: as claimed while the application is still running when the
\* branch is taken; when stop() has been called in between, the update and
\* normal branches start no rebuild and register the listener at once.
C23_RunKindBranchesWhileRunning ==
    [][/\ \A runInfo \in RunInfos :
             onSubscriptionLoaded(runInfo)
             => /\ initStage = "runInfo" /\ initStage' # "runInfo"
                /\ runInfo.isFirstRun => FirstRunBranchTaken
                /\ (~runInfo.isFirstRun /\ runInfo.isUpdate)
                   => UNCHANGED <<rebuilds, rebuildsRequested, listenerCount>>
                /\ (~runInfo.isFirstRun /\ ~runInfo.isUpdate)
                   => IF applicationRunning THEN InitialRebuildStarted
                      ELSE /\ listenerCount' = listenerCount + 1
                           /\ UNCHANGED <<rebuilds, rebuildsRequested>>
       /\ onUpdate
          => IF applicationRunning THEN InitialRebuildStarted
             ELSE /\ listenerCount' = listenerCount + 1
                  /\ UNCHANGED <<rebuilds, rebuildsRequested>>
       /\ listenerCount' > listenerCount
          => \/ \E runInfo \in RunInfos : runInfo.isFirstRun /\ onSubscriptionLoaded(runInfo)
             \/ InitialRebuildCompleted
             \/ /\ ~applicationRunning
                /\ \/ onUpdate
                   \/ \E runInfo \in RunInfos : ~runInfo.isFirstRun /\ onSubscriptionLoaded(runInfo)]_vars

\* C23 witness: on an update or normal run the initial rebuild, started by the
\* core, has reached compilation and no listener is registered yet.
C23_Witness ==
    /\ initStage = "done"
    /\ applicationRunning
    /\ listenerCount = 0
    /\ \E i \in 1..Len(rebuilds) :
          rebuilds[i].callback = "init" /\ rebuilds[i].phase = "compiling"

\* C24: addAntiBannerFilter with an identifier the registry has no filter for
\* throws before doing anything else: no callback, no FILTER_ADD_REMOVE, no
\* filter load started, no registry state changed.
C24_UnknownFilterIdThrows ==
    [][\A filterId \in UnknownFilterIds :
          addAntiBannerFilter(filterId)
          => /\ emitted' = <<Thrown>>
             /\ UNCHANGED <<filterLoads, filterInstalled, filterLoaded, filterEnabled,
                            groupEnabled, rebuilds, listenerCount>>]_vars

\* C24 witness: addAntiBannerFilter has thrown while a load for a known
\* filter that is not installed was in flight, and nothing was added to it.
C24_Witness ==
    /\ emitted = <<Thrown>>
    /\ filterLoads = <<1>>
    /\ ~filterInstalled[1]

\* C25: while the application is stopped the live engine is empty: in every
\* state in which applicationRunning is false, requestFilter has no rules; a
\* rebuild that was in flight when stop() was called publishes nothing after
\* it.
C25_StoppedEngineEmpty == ~applicationRunning => getRulesCount(requestFilter) = 0

\* A batch handler that calls createRequestFilter: the timer handler of a
\* batch without storage events, or the write callback that resolves the last
\* deferred of a batch that needs a rebuild.
BatchCallsCreateRequestFilter ==
    \/ /\ processEventsHistory
       /\ RebuildsAtOnce(someUpdateRequestFilterEvent(filterEventsHistory),
                         FiltersToSave(filterEventsHistory))
    \/ \E b \in 1..Len(batches), f \in FilterIds :
          /\ SaveRulesWritten(b, f)
          /\ batches[b].need
          /\ \A g \in FilterIds \ {f} : batches[b].tasks[g].phase = "none"

\* The initialization calls createRequestFilter, with the callback that
\* registers the listener and completes start().
InitCallsCreateRequestFilter ==
    \/ onUpdate
    \/ \E runInfo \in RunInfos : RunBranch(runInfo) = "normal" /\ onSubscriptionLoaded(runInfo)

\* C26: createRequestFilter called while the application is not running
\* starts no rule read and no compilation, swaps no engine and publishes no
\* REQUEST_FILTER_UPDATED, and runs its callback once when it is given one;
\* the batch's storage writes are made all the same, and the rebuild of the
\* next start() reads what the Rule Store then holds.
C26_StoppedRebuildIsNoOp ==
    [][/\ (~applicationRunning /\ BatchCallsCreateRequestFilter)
          => /\ UNCHANGED <<rebuilds, rebuildsRequested, requestFilter, listenerCount>>
             /\ UpdatesIn(emitted') = {}
             /\ CallbacksIn(emitted') = 0
       /\ (~applicationRunning /\ InitCallsCreateRequestFilter)
          => /\ UNCHANGED <<rebuilds, rebuildsRequested, requestFilter>>
             /\ UpdatesIn(emitted') = {}
             /\ CallbacksIn(emitted') = 1
             /\ listenerCount' = listenerCount + 1
       /\ \A b \in 1..Len(batches), f \in FilterIds :
             (~applicationRunning /\ SaveRulesWritten(b, f))
             => rulesStorage'[f] = batches[b].tasks[f].converted
       /\ (start /\ ~applicationRunning /\ applicationInitialized)
          => /\ Len(rebuilds') = Len(rebuilds) + 1
             /\ rebuilds'[Len(rebuilds')].pending = FiltersToLoad
       /\ \A i \in 1..Len(rebuilds), f \in FilterIds :
             (LoadFilterRulesDone(i, f) /\ rulesStorage[f] # Undefined)
             => rebuilds'[i].rulesFilterMap[f] = rulesStorage[f]]_vars

\* C26 witness: a new text for filter 1 was written while the application was
\* stopped, no rebuild was started for it, and the rebuild of the next
\* start(), the only rebuild so far, has published an engine with that text.
C26_Witness ==
    /\ applicationRunning
    /\ taken = 1
    /\ batches = <<>>
    /\ rebuildsRequested = 1
    /\ rebuilds = <<>>
    /\ rulesStorage[1] = <<"b">>
    /\ requestFilter = [lists |-> [NoLists EXCEPT ![1] = <<"b">>], req |-> 1]
    /\ CallbacksIn(emitted) = 1

\* C27: when the write of a batch for the user filter completes,
\* UPDATE_USER_FILTER_RULES is published and recorded by the batcher as a
\* rebuild-triggering event that carries no storage event, so a rebuild that
\* reads the new user rules follows and no further write does.
C27_UserFilterEditsReachEngine ==
    [][\A b \in 1..Len(batches) :
          SaveRulesWritten(b, USER_FILTER_ID)
          => /\ emitted' = <<[event |-> UPDATE_USER_FILTER_RULES]>>
             /\ filterEventsHistory' = Append(filterEventsHistory, UserFilterUpdated)
             /\ isUpdateRequestFilterEvent(UserFilterUpdated)
             /\ ~isSaveRulesToStorageEvent(UserFilterUpdated)
             /\ onFilterChangeTimeout' # NoTimeout]_vars

\* The events that only toggle a filter or a group, or announce new user rules.
OnlyToggles(events) ==
    /\ events # <<>>
    /\ \A k \in 1..Len(events) :
          events[k].event \in {FILTER_ENABLE_DISABLE, FILTER_GROUP_ENABLE_DISABLE,
                               UPDATE_USER_FILTER_RULES}

\* C28: a batch of FILTER_ENABLE_DISABLE, FILTER_GROUP_ENABLE_DISABLE and
\* UPDATE_USER_FILTER_RULES events alone issues no Rule Store read-for-write
\* and no write, and no step of a rebuild writes rule text: the Rule Store is
\* unchanged by such a batch and by every rebuild.
C28_TogglesLeaveStoreAlone ==
    [][/\ (processEventsHistory /\ OnlyToggles(filterEventsHistory))
          => UNCHANGED <<batches, storageCalls, rulesStorage>>
       /\ (\/ \E i \in 1..Len(rebuilds), f \in FilterIds : LoadFilterRulesDone(i, f)
           \/ \E i \in 1..Len(rebuilds) : RequestFilterInitialized(i)
           \/ \E i \in 1..Len(rebuilds) : StartEngineRejected(i))
          => UNCHANGED <<batches, storageCalls, rulesStorage>>]_vars

\* C28 witness: filter 1 was disabled, the batch of that one event was
\* processed and its rebuild has published; the Rule Store was neither read
\* for writing nor written.
C28_Witness ==
    /\ taken = 1
    /\ ~filterEnabled[1]
    /\ requestFilter.req = 2
    /\ rebuilds = <<>>
    /\ storageCalls = NoStorageCalls
    /\ rulesStorage = StoredAtStart

\* APPLICATION_INITIALIZED is among what a handler published.
InitializedIn(out) == \E k \in 1..Len(out) : out[k].event = APPLICATION_INITIALIZED

\* C29: APPLICATION_INITIALIZED is published at most once per process: only
\* while requestFilterInitTime is 0, by the first rebuild that reaches the
\* compile stage, in the step that sets requestFilterInitTime and before that
\* rebuild publishes its engine; requestFilterInitTime is 0 until then and
\* constant afterwards, whatever rebuilds, stop() and start() follow.
C29_InitializedOnce ==
    [][/\ InitializedIn(emitted')
          => /\ requestFilterInitTime = 0
             /\ requestFilterInitTime' # 0
             /\ requestFilter.req = 0
             /\ UNCHANGED requestFilter
             /\ \A i \in 1..Len(rebuilds) : rebuilds[i].phase = "loading"
             /\ \E i \in 1..Len(rebuilds) : rebuilds'[i].phase = "compiling"
       /\ requestFilterInitTime # 0 => requestFilterInitTime' = requestFilterInitTime
       /\ requestFilterInitTime' # requestFilterInitTime => InitializedIn(emitted')
       /\ (\E i \in 1..Len(rebuilds) : RequestFilterInitialized(i) \/ StartEngineRejected(i))
          => requestFilterInitTime # 0]_vars

\* C29 witness: after requestFilterInitTime was set and the application was
\* stopped and started again, the second rebuild has reached the compile
\* stage without publishing APPLICATION_INITIALIZED.
C29_Witness ==
    /\ requestFilterInitTime # 0
    /\ requestFilter = NewRequestFilter
    /\ applicationRunning
    /\ emitted = <<>>
    /\ \E i \in 1..Len(rebuilds) : rebuilds[i].req = 2 /\ rebuilds[i].phase = "compiling"

\* Where a call occurs in the calls of a request.
CallsOf(trace, call) == {k \in 1..Len(trace) : trace[k] = call}

\* C30: a handled request calls Engine.debounceUpdate at most once, only
\* after the operation that changes the state has completed - the awaited
\* load / enable / reload, or the disable - and not at all when it failed.
C30_UpdateAfterStateChange ==
    \A r \in 1..Len(handled) :
        LET trace == handled[r].trace
        IN /\ Cardinality(CallsOf(trace, DebounceUpdate)) <= 1
           /\ \A u \in CallsOf(trace, DebounceUpdate) :
                 \E c \in CallsOf(trace, "completed") : c < u
           /\ (CallsOf(trace, "rejected") \cup CallsOf(trace, "thrown")) # {}
              => CallsOf(trace, DebounceUpdate) = {}
           /\ handled[r].stage = "awaiting" => CallsOf(trace, DebounceUpdate) = {}

\* C30 witness: one request to enable a filter whose load has completed and
\* was followed by the update, and one switch of the optimized filters whose
\* reload failed and was followed by none.
C30_Witness ==
    \E r, q \in 1..Len(handled) :
        /\ handled[r].trace = <<"FiltersApi.loadAndEnableFilters", "completed", DebounceUpdate>>
        /\ handled[q].trace = <<"FiltersApi.reloadEnabledFilters", "rejected">>

====
